---- MODULE Spec2Model ----
(***************************************************************************)
(* Konditionner: the condition set (Conditions), its finders and           *)
(* mutations, and the advisory Lock built on it.                           *)
(*                                                                         *)
(* Three specifications share the pure operators below:                      *)
(*   SpecSet  one Conditions value, nil or empty at first, driven by       *)
(*            sequences of SetCondition and RemoveConditionWith calls;     *)
(*   SpecCall one call of a mutation or a finder on any set that           *)
(*            SetCondition calls can build, and what the caller then       *)
(*            does with the pointer a finder returned;                     *)
(*   Spec     independent reconciliation attempts, each fetching the       *)
(*            resource from a versioned store, building a Lock and         *)
(*            calling Execute.                                             *)
(*                                                                         *)
(* Go values are modelled as follows.  A Condition is a record.  A         *)
(* Conditions slice is a sequence of Conditions.  A *Condition is nil (the  *)
(* empty sequence), a pointer to an object of its own (a one-element       *)
(* sequence holding the object) or a pointer to element i of the set (the  *)
(* element followed by i).  A *Conditions receiver is a record             *)
(* [isNil, val].  A meta.Time is a natural number, 0 being the zero *)
(* time.  time.Now() is never 0 and grows from one call to the next: in    *)
(* SpecSet it is the variable now, in Spec each attempt, a process of its  *)
(* own, reads its own clock hist[a].clock.  The resource first stored      *)
(* carries timestamps earlier than every clock reading.                    *)
(***************************************************************************)
EXTENDS Naturals, Sequences, FiniteSets

\* ------------------------------------------------------------ bounds

\* Largest timestamp a caller supplies in a Condition.
MaxTime == 2
\* Number of calls made on the set in SpecSet.
MaxOps == 3
\* Number of calls a task makes on the live set before it returns.
MaxTaskOps == 2
\* Number of independent reconciliation attempts in Spec.
NumAttempts == 2

\* ------------------------------------------------------------ values

ConditionInitialized == "Initialized"
ConditionCreated == "Created"
ConditionError == "Error"
ConditionLocked == "Locked"

\* The text of LockNotReleasedErr; the constant stands for the error value
\* and for its Error() string alike.
LockNotReleasedErr == "Condition still locked after task executed"

\* The nil error.
NoErr == "nil"

\* Condition types used by the callers (user-defined strings).
Types == {"Bucket", "Volume"}

\* The zero value test of meta.Time.
IsZero(t) == t = 0

\* Condition{Type, Status, Reason, LastTransitionTime}
Condition(t, s, r, ltt) ==
  [Type |-> t, Status |-> s, Reason |-> r, LastTransitionTime |-> ltt]

\* A nil *Condition and a pointer to a (copied) Condition.
NilCondition == <<>>
PtrTo(cond) == <<cond>>
IsNilCondition(p) == Len(p) = 0
Deref(p) == p[1]

\* &c[i]: a pointer to element i of the set c.
PtrInto(c, i) == <<c[i], i>>

\* The set c after *ptr = value: the assignment reaches the set only when
\* ptr points into it.
Assigned(c, ptr, value) ==
  IF Len(ptr) = 2 THEN [c EXCEPT ![ptr[2]] = value] ELSE c

\* A nil *Conditions and a pointer to a Conditions value.
NilConditions == [isNil |-> TRUE, val |-> <<>>]
Ref(c) == [isNil |-> FALSE, val |-> c]

\* ------------------------------------------------------------ condition.go

\* Condition.DeepCopy: a new Condition with every field copied.
DeepCopy(cond) ==
  [Type |-> cond.Type, Status |-> cond.Status, Reason |-> cond.Reason,
   LastTransitionTime |-> cond.LastTransitionTime]

\* Conditions.DeepCopy: a new slice of the same length, each element copied.
ConditionsDeepCopy(c) == [i \in 1..Len(c) |-> DeepCopy(c[i])]

\* Condition.StatusIsOneOf
\* Faulty variant: DeepCopy hands back the condition it was called on.
DeepCopySame(c, i) == PtrInto(c, i)

\* c[i].DeepCopy(), and element i of c.DeepCopy(): new storage (new(Condition),
\* or a slot of the slice make() returned) that DeepCopyInto fills from c[i].
DeepCopyNew(c, i) == PtrTo(DeepCopy(c[i]))

\* The condition a pointer refers to, given the set c it may point into.
ValueAt(c, ptr) == IF Len(ptr) = 2 THEN c[ptr[2]] ELSE ptr[1]

StatusIsOneOf(cond, statuses) == \E s \in statuses : cond.Status = s

\* ------------------------------------------------------------ finders

\* Faulty variant: the loop returns after looking at the first element only.
FirstTypeIndexHeadOnly(c, conditionType) ==
  IF Len(c) > 0 /\ c[1].Type = conditionType THEN 1 ELSE 0

\* The index of the first element satisfying the loop's test, 0 when none.
FirstTypeIndex(c, conditionType) ==
  IF \E i \in 1..Len(c) : c[i].Type = conditionType
  THEN CHOOSE i \in 1..Len(c) :
         /\ c[i].Type = conditionType
         /\ \A j \in 1..(i - 1) : c[j].Type # conditionType
  ELSE 0

\* Faulty variant: the loop keeps the last match instead of the first.
LastStatusIndex(c, conditionStatus) ==
  IF \E i \in 1..Len(c) : c[i].Status = conditionStatus
  THEN CHOOSE i \in 1..Len(c) :
         /\ c[i].Status = conditionStatus
         /\ \A j \in (i + 1)..Len(c) : c[j].Status # conditionStatus
  ELSE 0

FirstStatusIndex(c, conditionStatus) ==
  IF \E i \in 1..Len(c) : c[i].Status = conditionStatus
  THEN CHOOSE i \in 1..Len(c) :
         /\ c[i].Status = conditionStatus
         /\ \A j \in 1..(i - 1) : c[j].Status # conditionStatus
  ELSE 0

\* Faulty variant: return &c[i], a pointer into the set, not a copy.
FindTypeIntoSet(c, conditionType) ==
  LET i == FirstTypeIndex(c, conditionType)
  IN IF i = 0 THEN NilCondition ELSE PtrInto(c, i)

\* Conditions.FindType: a pointer to a COPY of the first match, or nil.
FindType(c, conditionType) ==
  LET i == FirstTypeIndex(c, conditionType)
  IN IF i = 0 THEN NilCondition ELSE PtrTo(DeepCopy(c[i]))

\* Conditions.FindStatus: a pointer to a COPY of the first match, or nil.
FindStatus(c, conditionStatus) ==
  LET i == FirstStatusIndex(c, conditionStatus)
  IN IF i = 0 THEN NilCondition ELSE PtrTo(DeepCopy(c[i]))

\* Faulty variant: a new condition is returned whether or not one exists.
FindOrInitializeForAlwaysNew(c, ct) ==
  Condition(ct, ConditionInitialized, "", 0)

\* Conditions.FindOrInitializeFor
FindOrInitializeFor(c, ct) ==
  LET condition == FindType(c, ct)
  IN IF ~IsNilCondition(condition)
     THEN Deref(condition)
     ELSE Condition(ct, ConditionInitialized, "", 0)

\* Faulty variant: the loop tests the status of every entry, whatever its type.
TypeHasStatusAnyType(c, conditionType, status) ==
  \E i \in 1..Len(c) : c[i].Status = status

\* Conditions.TypeHasStatus
TypeHasStatus(c, conditionType, status) ==
  LET i == FirstTypeIndex(c, conditionType)
  IN IF i = 0 THEN FALSE ELSE c[i].Status = status

\* Conditions.AnyWithStatus
AnyWithStatus(c, status) == ~IsNilCondition(FindStatus(c, status))

\* ------------------------------------------------------------ mutations.go

\* Faulty variant: the nil test of the receiver is missing.
ReceiverNeverNil(p) == FALSE

\* SetCondition, lines 26-28: c == nil.
ReceiverIsNil(p) == p.isNil

\* Faulty variant: the condition is appended with the timestamp it came with.
StampNever(newCondition, clock) == newCondition

\* SetCondition, lines 32-34: a condition without a timestamp gets time.Now().
Stamp(newCondition, clock) ==
  IF IsZero(newCondition.LastTransitionTime)
  THEN [newCondition EXCEPT !.LastTransitionTime = clock]
  ELSE newCondition

\* Faulty variant: the new condition is put in front of the others.
Prepended(c, newCondition) == <<newCondition>> \o c

\* SetCondition, line 35: *c = append(*c, newCondition).
Appended(c, newCondition) == Append(c, newCondition)

\* Conditions.SetCondition(newCondition), with clock the value of time.Now().
\* The result holds the receiver after the call (ptr), the return value
\* (changed) and, when an entry for the type exists, the object the
\* assignments of lines 39-52 are made to (existingCondition).  That object
\* is what FindType returned: the assignments reach the set only if that
\* pointer points into it.
SetCondition(p, newCondition, clock) ==
  IF ReceiverIsNil(p)
  THEN [ptr |-> p, changed |-> FALSE, existingCondition |-> NilCondition]
  ELSE
    LET existingCondition == FindType(p.val, newCondition.Type)
    IN IF IsNilCondition(existingCondition)
       THEN [ptr |-> Ref(Appended(p.val, Stamp(newCondition, clock))),
             changed |-> TRUE, existingCondition |-> NilCondition]
       ELSE
         LET e0 == Deref(existingCondition)
             statusDiffers == e0.Status # newCondition.Status
             e1 == IF statusDiffers
                   THEN [e0 EXCEPT
                           !.Status = newCondition.Status,
                           !.LastTransitionTime =
                              IF ~IsZero(newCondition.LastTransitionTime)
                              THEN newCondition.LastTransitionTime
                              ELSE clock]
                   ELSE e0
             reasonDiffers == e1.Reason # newCondition.Reason
             e2 == IF reasonDiffers
                   THEN [e1 EXCEPT !.Reason = newCondition.Reason]
                   ELSE e1
         IN [ptr |-> Ref(Assigned(p.val, existingCondition, e2)),
             changed |-> statusDiffers \/ reasonDiffers,
             existingCondition |-> PtrTo(e2)]

\* Faulty variant: the kept elements come out in reverse order.
RECURSIVE FilterOutReversed(_, _)
FilterOutReversed(c, conditionType) ==
  IF Len(c) = 0 THEN <<>>
  ELSE IF Head(c).Type # conditionType
       THEN FilterOutReversed(Tail(c), conditionType) \o <<Head(c)>>
       ELSE FilterOutReversed(Tail(c), conditionType)

\* The elements of c whose Type is not conditionType, in order.
RECURSIVE FilterOut(_, _)
FilterOut(c, conditionType) ==
  IF Len(c) = 0 THEN <<>>
  ELSE IF Head(c).Type # conditionType
       THEN <<Head(c)>> \o FilterOut(Tail(c), conditionType)
       ELSE FilterOut(Tail(c), conditionType)

\* Faulty variant: a removal is reported whenever the loop ran.
RemoveConditionWithAlwaysReports(p, conditionType) ==
  IF p.isNil \/ Len(p.val) = 0
  THEN [ptr |-> p, removed |-> FALSE]
  ELSE [ptr |-> Ref(FilterOut(p.val, conditionType)), removed |-> TRUE]

\* Conditions.RemoveConditionWith(conditionType)
RemoveConditionWith(p, conditionType) ==
  IF p.isNil \/ Len(p.val) = 0
  THEN [ptr |-> p, removed |-> FALSE]
  ELSE LET newConditions == FilterOut(p.val, conditionType)
       IN [ptr |-> Ref(newConditions),
           removed |-> Len(p.val) # Len(newConditions)]

\* ------------------------------------------------------------ state

VARIABLES
  \* SpecSet: a caller holding one Conditions value.
  conditions,   \* the *Conditions the caller operates on
  now,          \* the value time.Now() returns to the next call
  nops,         \* operations applied so far
  last,         \* the latest call: its name, argument, receiver before, results
  prev,         \* the call before it
  \* Spec: the store and the reconciliation attempts.
  store,        \* the stored resource: its version and its conditions
  pc,           \* where each attempt is
  obj,          \* each attempt's in-memory resource (l.obj)
  lock,         \* each attempt's l.condition
  result,       \* what Execute returned to each attempt
  hist          \* per attempt, what happened so far (observations)

setVars == <<conditions, now, nops, last, prev>>
lockVars == <<store, pc, obj, lock, result, hist>>
vars == <<conditions, now, nops, last, prev, store, pc, obj, lock, result, hist>>

\* ------------------------------------------------------------ SpecSet

\* Statuses and reasons the caller of SpecSet passes.
SetStatuses == {ConditionInitialized, ConditionCreated}
SetReasons == {"", "done"}

NoCall ==
  [op |-> "none", arg |-> Condition("", "", "", 0), pre |-> NilConditions,
   ret |-> FALSE, out |-> NilCondition, copy |-> <<>>, clock |-> 0]

\* var conditions *Conditions (nil), or conditions: Conditions{}.
InitSet ==
  /\ conditions \in {NilConditions, Ref(<<>>)}
  /\ now = 1
  /\ nops = 0
  /\ last = NoCall
  /\ prev = NoCall
  /\ store = [version |-> 0, conds |-> <<>>]
  /\ pc = <<>>
  /\ obj = <<>>
  /\ lock = <<>>
  /\ result = <<>>
  /\ hist = <<>>

\* conditions.SetCondition(Condition{t, s, r, ltt})
CallSetCondition(t, s, r, ltt) ==
  LET newCondition == Condition(t, s, r, ltt)
      out == SetCondition(conditions, newCondition, now)
  IN /\ nops < MaxOps
     /\ conditions' = out.ptr
     /\ last' = [op |-> "SetCondition", arg |-> newCondition,
                 pre |-> conditions, ret |-> out.changed,
                 out |-> NilCondition, copy |-> <<>>, clock |-> now]
     /\ prev' = last
     /\ nops' = nops + 1
     /\ now' = now + 1
     /\ UNCHANGED lockVars

\* conditions.RemoveConditionWith(t)
CallRemoveConditionWith(t) ==
  LET out == RemoveConditionWith(conditions, t)
  IN /\ nops < MaxOps
     /\ conditions' = out.ptr
     /\ last' = [op |-> "RemoveConditionWith", arg |-> Condition(t, "", "", 0),
                 pre |-> conditions, ret |-> out.removed,
                 out |-> NilCondition, copy |-> <<>>, clock |-> now]
     /\ prev' = last
     /\ nops' = nops + 1
     /\ now' = now + 1
     /\ UNCHANGED lockVars

NextSet ==
  \/ \E t \in Types, s \in SetStatuses, r \in SetReasons, ltt \in 0..MaxTime :
       CallSetCondition(t, s, r, ltt)
  \/ \E t \in Types : CallRemoveConditionWith(t)

SpecSet == InitSet /\ [][NextSet]_vars

\* ------------------------------------------------------------ SpecCall

\* Types the caller of SpecCall uses: enough for a set that keeps two
\* entries after one is removed.
CallTypes == Types \cup {"Secret"}

\* Entries SetCondition appends: any type, status and reason, a timestamp.
BuiltEntries ==
  [Type : CallTypes, Status : SetStatuses, Reason : SetReasons,
   LastTransitionTime : {1}]

\* The sets that SetCondition calls build from an empty set: one entry per
\* type, in any order.
BuiltSets ==
  UNION { { c \in [1..n -> BuiltEntries] :
              \A i, j \in 1..n : i # j => c[i].Type # c[j].Type }
          : n \in 0..Cardinality(CallTypes) }

\* A nil *Conditions or any built set, no call made yet.
InitCall ==
  /\ conditions \in {NilConditions} \cup {Ref(c) : c \in BuiltSets}
  /\ now = MaxTime + 1
  /\ nops = 0
  /\ last = NoCall
  /\ prev = NoCall
  /\ store = [version |-> 0, conds |-> <<>>]
  /\ pc = <<>>
  /\ obj = <<>>
  /\ lock = <<>>
  /\ result = <<>>
  /\ hist = <<>>

\* A finder call on the value receiver *conditions: the set is read, its
\* result recorded (ret for a bool, out for a Condition or *Condition).
CallFinder(op, arg, ret, out) ==
  /\ last.op = "none"
  /\ ~conditions.isNil
  /\ last' = [op |-> op, arg |-> arg, pre |-> conditions, ret |-> ret,
              out |-> out, copy |-> <<>>, clock |-> now]
  /\ prev' = last
  /\ UNCHANGED <<conditions, now, nops>>
  /\ UNCHANGED lockVars

\* found := conditions.FindType(t)
CallFindType(t) ==
  CallFinder("FindType", Condition(t, "", "", 0), FALSE,
             FindType(conditions.val, t))

\* found := conditions.FindStatus(s)
CallFindStatus(s) ==
  CallFinder("FindStatus", Condition("", s, "", 0), FALSE,
             FindStatus(conditions.val, s))

\* c := conditions.FindOrInitializeFor(t)
CallFindOrInitializeFor(t) ==
  CallFinder("FindOrInitializeFor", Condition(t, "", "", 0), FALSE,
             PtrTo(FindOrInitializeFor(conditions.val, t)))

\* conditions.TypeHasStatus(t, s)
CallTypeHasStatus(t, s) ==
  CallFinder("TypeHasStatus", Condition(t, s, "", 0),
             TypeHasStatus(conditions.val, t, s), NilCondition)

\* conditions.AnyWithStatus(s)
CallAnyWithStatus(s) ==
  CallFinder("AnyWithStatus", Condition("", s, "", 0),
             AnyWithStatus(conditions.val, s), NilCondition)

\* found.Status = s; found.Reason = r, on the pointer FindType or FindStatus
\* returned.
CallerWrites(s, r) ==
  /\ last.op \in {"FindType", "FindStatus"}
  /\ ~IsNilCondition(last.out)
  /\ LET written == [Deref(last.out) EXCEPT !.Status = s, !.Reason = r]
     IN /\ conditions' = Ref(Assigned(conditions.val, last.out, written))
        /\ last' = [last EXCEPT !.op = "write", !.out[1] = written]
  /\ prev' = last
  /\ UNCHANGED <<now, nops>>
  /\ UNCHANGED lockVars

\* newConditions := conditions.DeepCopy(): the copy is recorded as the
\* sequence of its elements' storage.  A nil receiver gives a nil copy.
CallConditionsDeepCopy ==
  /\ last.op = "none"
  /\ last' = [op |-> "Conditions.DeepCopy", arg |-> Condition("", "", "", 0),
              pre |-> conditions, ret |-> FALSE, out |-> NilCondition,
              copy |-> [i \in 1..Len(conditions.val) |->
                          DeepCopyNew(conditions.val, i)],
              clock |-> now]
  /\ prev' = last
  /\ UNCHANGED <<conditions, now, nops>>
  /\ UNCHANGED lockVars

\* newCond := conditions[i].DeepCopy()
CallConditionDeepCopy(i) ==
  /\ last.op = "none"
  /\ i \in 1..Len(conditions.val)
  /\ last' = [op |-> "Condition.DeepCopy", arg |-> conditions.val[i],
              pre |-> conditions, ret |-> FALSE, out |-> NilCondition,
              copy |-> <<DeepCopyNew(conditions.val, i)>>, clock |-> now]
  /\ prev' = last
  /\ UNCHANGED <<conditions, now, nops>>
  /\ UNCHANGED lockVars

\* The copy DeepCopy returned is at hand.
HoldsCopy == last.op \in {"Conditions.DeepCopy", "Condition.DeepCopy"}

\* newCond.Status = s; newCond.Reason = r, on element i of the copy.
CallerWritesCopy(i, s, r) ==
  /\ HoldsCopy
  /\ i \in 1..Len(last.copy)
  /\ LET written == [ValueAt(conditions.val, last.copy[i])
                       EXCEPT !.Status = s, !.Reason = r]
     IN /\ conditions' = Ref(Assigned(conditions.val, last.copy[i], written))
        /\ last' = [last EXCEPT !.op = "write copy", !.copy[i][1] = written]
  /\ prev' = last
  /\ UNCHANGED <<now, nops>>
  /\ UNCHANGED lockVars

\* newConditions = append(newConditions, Condition{}): the copy has no spare
\* capacity, so append moves it to a new array.
CallerAppendsCopy ==
  /\ last.op = "Conditions.DeepCopy"
  /\ last' = [last EXCEPT
               !.op = "append copy",
               !.copy = Append([i \in 1..Len(last.copy) |->
                                  PtrTo(ValueAt(conditions.val, last.copy[i]))],
                               PtrTo(Condition("", "", "", 0)))]
  /\ prev' = last
  /\ UNCHANGED <<conditions, now, nops>>
  /\ UNCHANGED lockVars

\* conditions[i].Status = s; conditions[i].Reason = r, on the set the copy
\* was taken from.
CallerWritesOriginal(i, s, r) ==
  /\ HoldsCopy
  /\ i \in 1..Len(conditions.val)
  /\ conditions' = Ref([conditions.val EXCEPT ![i].Status = s, ![i].Reason = r])
  /\ last' = [last EXCEPT !.op = "write original"]
  /\ prev' = last
  /\ UNCHANGED <<now, nops>>
  /\ UNCHANGED lockVars

NextCall ==
  \/ \E t \in CallTypes, s \in SetStatuses, r \in SetReasons, ltt \in 0..MaxTime :
       last.op = "none" /\ CallSetCondition(t, s, r, ltt)
  \/ \E t \in CallTypes : last.op = "none" /\ CallRemoveConditionWith(t)
  \/ \E t \in CallTypes : CallFindType(t)
  \/ \E s \in SetStatuses : CallFindStatus(s)
  \/ \E t \in CallTypes : CallFindOrInitializeFor(t)
  \/ \E t \in CallTypes, s \in SetStatuses : CallTypeHasStatus(t, s)
  \/ \E s \in SetStatuses : CallAnyWithStatus(s)
  \/ \E s \in SetStatuses, r \in SetReasons : CallerWrites(s, r)
  \/ CallConditionsDeepCopy
  \/ \E i \in 1..Cardinality(CallTypes) : CallConditionDeepCopy(i)
  \/ \E i \in 1..Cardinality(CallTypes), s \in SetStatuses, r \in SetReasons :
       CallerWritesCopy(i, s, r)
  \/ CallerAppendsCopy
  \/ \E i \in 1..Cardinality(CallTypes), s \in SetStatuses, r \in SetReasons :
       CallerWritesOriginal(i, s, r)

SpecCall == InitCall /\ [][NextCall]_vars

\* ------------------------------------------------------------ Spec

Attempts == 1..NumAttempts

\* The condition type every attempt builds its lock for.
LockType == "Bucket"

\* The store's error for a write made from a stale version.
ConflictErr == "Conflict"

\* Errors a task returns from its own work.
TaskErrs == {"disk full"}

\* Conditions of the resource as first stored.
InitialConds ==
  { <<>>,
    <<Condition("Volume", ConditionCreated, "found", 1)>>,
    <<Condition("Volume", ConditionCreated, "found", 1),
      Condition(LockType, ConditionCreated, "done", 1)>> }

\* client.Status().Update(ctx, obj) against a store with optimistic
\* concurrency: the write is rejected when obj was read at another version
\* than the stored one; an accepted write stores obj's conditions under a new
\* version and refreshes obj with it.
StatusUpdate(st, o) ==
  IF o.version = st.version
  THEN LET fresh == [version |-> st.version + 1,
                     conds |-> ConditionsDeepCopy(o.conds)]
       IN [err |-> NoErr, store |-> fresh, obj |-> fresh]
  ELSE [err |-> ConflictErr, store |-> st, obj |-> o]

\* What is observed of an attempt: the version it fetched, the condition
\* NewLock found (snapshot), the live set when Execute was called (preLive),
\* the task's argument (arg, empty until the task is called), how often the
\* task was called (tasks) and Execute called Update (persists), what the two
\* Updates returned (first, second), what the task returned (taskErr),
\* whether line 511 saw Locked (lockedSeen), whether the task called
\* SetCondition (taskSet), the attempt's clock, the conditions of the
\* resource Execute handed to its two Updates (sent1, sent2, each in a
\* one-element sequence once handed), and whether the store changed during
\* the first Update (firstWrote).
NoHist ==
  [fetched |-> 0, snapshot |-> Condition("", "", "", 0), preLive |-> <<>>,
   arg |-> <<>>, tasks |-> 0, persists |-> 0, first |-> "none",
   second |-> "none", taskErr |-> "none", lockedSeen |-> FALSE,
   taskSet |-> FALSE, clock |-> 2, sent1 |-> <<>>, sent2 |-> <<>>,
   firstWrote |-> FALSE]

Init ==
  /\ conditions = NilConditions
  /\ now = 0
  /\ nops = 0
  /\ last = NoCall
  /\ prev = NoCall
  /\ store \in [version : {1}, conds : InitialConds]
  /\ pc = [a \in Attempts |-> "start"]
  /\ obj = [a \in Attempts |-> [version |-> 0, conds |-> <<>>]]
  /\ lock = [a \in Attempts |-> Condition("", "", "", 0)]
  /\ result = [a \in Attempts |-> "none"]
  /\ hist = [a \in Attempts |-> NoHist]

\* reconciler.Get(ctx, req, &record): a copy of the stored resource.
Get(st) == [version |-> st.version, conds |-> ConditionsDeepCopy(st.conds)]

\* The attempt reads the stored resource and builds its lock:
\* NewLock(obj, c, ct).  Attempts differ by name only, so they are numbered
\* in the order in which they read the store.
NewLock(a) ==
  /\ pc[a] = "start"
  /\ \A b \in Attempts : b < a => pc[b] # "start"
  /\ LET record == Get(store)
         condition == FindOrInitializeFor(record.conds, LockType)
     IN /\ obj' = [obj EXCEPT ![a] = record]
        /\ lock' = [lock EXCEPT ![a] = condition]
        /\ hist' = [hist EXCEPT ![a].fetched = record.version,
                                ![a].snapshot = condition]
  /\ pc' = [pc EXCEPT ![a] = "ready"]
  /\ UNCHANGED <<store, result, setVars>>

\* Faulty variant: Execute goes on to the task whatever the first Update returned.
AbortsNever(updateErr) == FALSE

\* Faulty variant: Execute returns only on an error other than a conflict.
AbortsUnlessConflict(updateErr) ==
  updateErr # NoErr /\ updateErr # ConflictErr

\* Execute, lines 499-501: Execute returns when the first Update failed.
AbortsOnFirstUpdate(updateErr) == updateErr # NoErr

\* Faulty variant: the task is handed the condition as it is in the live set.
TaskArgumentLive(l, liveConds) == FindOrInitializeFor(liveConds, l.Type)

\* Execute, line 503: the condition handed to the task.
TaskArgument(l, liveConds) == l

\* Faulty variant: the condition is built without its Reason.
LockedConditionNoReason(l) == Condition(l.Type, ConditionLocked, "", 0)

\* Faulty variant: the condition is built for another type than the lock's.
LockedConditionOtherType(l) ==
  Condition("Volume", ConditionLocked, "Resource locked", 0)

\* Execute, lines 493-497: the condition Execute sets before the first Update.
LockedCondition(l) == Condition(l.Type, ConditionLocked, "Resource locked", 0)

\* Execute, lines 493-503: the Locked condition is set on the live set, the
\* resource is persisted, and on success the task is invoked.
ExecuteBegin(a) ==
  /\ pc[a] = "ready"
  /\ LET locked == SetCondition(Ref(obj[a].conds), LockedCondition(lock[a]),
                                hist[a].clock)
         upd == StatusUpdate(store, [obj[a] EXCEPT !.conds = locked.ptr.val])
     IN /\ store' = upd.store
        /\ obj' = [obj EXCEPT ![a] = upd.obj]
        /\ IF AbortsOnFirstUpdate(upd.err)
           THEN /\ pc' = [pc EXCEPT ![a] = "done"]
                /\ result' = [result EXCEPT ![a] = upd.err]
                /\ hist' = [hist EXCEPT
                              ![a].preLive = obj[a].conds,
                              ![a].clock = @ + 1,
                              ![a].persists = @ + 1,
                              ![a].sent1 = <<locked.ptr.val>>,
                              ![a].firstWrote = (upd.store # store),
                              ![a].first = upd.err]
           ELSE /\ pc' = [pc EXCEPT ![a] = "task"]
                /\ result' = result
                /\ hist' = [hist EXCEPT
                              ![a].preLive = obj[a].conds,
                              ![a].clock = @ + 1,
                              ![a].persists = @ + 1,
                              ![a].sent1 = <<locked.ptr.val>>,
                              ![a].firstWrote = (upd.store # store),
                              ![a].first = IF upd.err = NoErr THEN "ok" ELSE upd.err,
                              ![a].tasks = @ + 1,
                              ![a].arg = <<TaskArgument(lock[a], upd.obj.conds)>>]
  /\ UNCHANGED <<lock, setVars>>

\* What a task does to the live set before it returns: a sequence of
\*   "set"     condition.Status = ConditionCreated; condition.Reason = "done";
\*             res.Status.Conditions.SetCondition(condition)
\*   "remove"  res.Status.Conditions.RemoveConditionWith(condition.Type)
\* where condition is the task's argument.
TaskPrograms == UNION {[1..n -> {"set", "remove"}] : n \in 0..MaxTaskOps}

\* Whether prog makes the call op.
Calls(prog, op) == \E i \in 1..Len(prog) : prog[i] = op

RECURSIVE RunTask(_, _, _, _)
RunTask(liveConds, condition, prog, clock) ==
  IF Len(prog) = 0 THEN liveConds
  ELSE LET after ==
             IF Head(prog) = "set"
             THEN SetCondition(Ref(liveConds),
                               [condition EXCEPT !.Status = ConditionCreated,
                                                 !.Reason = "done"],
                               clock).ptr.val
             ELSE RemoveConditionWith(Ref(liveConds), condition.Type).ptr.val
       IN RunTask(after, condition, Tail(prog), clock + 1)

\* The task runs prog and returns e: nil or an error of its own work.
TaskReturn(a, prog, e) ==
  /\ pc[a] = "task"
  /\ obj' = [obj EXCEPT ![a].conds =
               RunTask(obj[a].conds, hist[a].arg[1], prog, hist[a].clock)]
  /\ pc' = [pc EXCEPT ![a] = "returned"]
  /\ hist' = [hist EXCEPT ![a].taskErr = e,
                          ![a].taskSet = Calls(prog, "set"),
                          ![a].clock = @ + MaxTaskOps]
  /\ UNCHANGED <<store, lock, result, setVars>>

\* The task runs prog and ends with
\* `return reconciler.Status().Update(ctx, &res)`.
TaskReturnUpdate(a, prog) ==
  /\ pc[a] = "task"
  /\ LET live == RunTask(obj[a].conds, hist[a].arg[1], prog, hist[a].clock)
         upd == StatusUpdate(store, [obj[a] EXCEPT !.conds = live])
     IN /\ store' = upd.store
        /\ obj' = [obj EXCEPT ![a] = upd.obj]
        /\ hist' = [hist EXCEPT ![a].taskErr = upd.err,
                                ![a].taskSet = Calls(prog, "set"),
                                      ![a].clock = @ + MaxTaskOps]
  /\ pc' = [pc EXCEPT ![a] = "returned"]
  /\ UNCHANGED <<lock, result, setVars>>

\* Execute, lines 505-516, on the live set liveConds with l = l.condition and
\* err the task's return value: the live set, l.condition and err afterwards;
\* panic when line 511 dereferences the nil that FindType returned.
AfterTask(liveConds, l, err, clock) ==
  LET failed == err # NoErr
      l1 == IF failed
            THEN [l EXCEPT !.Status = ConditionError, !.Reason = err]
            ELSE l
      conds1 == IF failed
                THEN SetCondition(Ref(liveConds), l1, clock).ptr.val
                ELSE liveConds
      c == FindType(conds1, l1.Type)
  IN IF IsNilCondition(c)
     THEN [panic |-> TRUE, conds |-> conds1, lock |-> l1, err |-> err,
           lockedSeen |-> FALSE]
     ELSE IF Deref(c).Status = ConditionLocked
          THEN LET l2 == [l1 EXCEPT !.Status = ConditionError,
                                    !.Reason = LockNotReleasedErr]
               IN [panic |-> FALSE,
                   conds |-> SetCondition(Ref(conds1), l2, clock + 1).ptr.val,
                   lock |-> l2, err |-> LockNotReleasedErr,
                   lockedSeen |-> TRUE]
          ELSE [panic |-> FALSE, conds |-> conds1, lock |-> l1, err |-> err,
                lockedSeen |-> FALSE]

\* Faulty variant: an error found before the second Update is returned first.
ReturnedEarlierErrFirst(updateErr, err) ==
  IF err # NoErr THEN err ELSE updateErr

\* Faulty variant: only the second Update's result is returned.
ReturnedUpdateErrOnly(updateErr, err) == updateErr

\* Execute, lines 518-522: the value returned after the second Update.
Returned(updateErr, err) == IF updateErr # NoErr THEN updateErr ELSE err

\* Execute, lines 505-522: after the task returned.
ExecuteFinish(a) ==
  /\ pc[a] = "returned"
  /\ LET post == AfterTask(obj[a].conds, lock[a], hist[a].taskErr,
                           hist[a].clock)
         upd == StatusUpdate(store, [obj[a] EXCEPT !.conds = post.conds])
     IN /\ lock' = [lock EXCEPT ![a] = post.lock]
        /\ IF post.panic
           THEN /\ pc' = [pc EXCEPT ![a] = "panic"]
                /\ obj' = [obj EXCEPT ![a].conds = post.conds]
                /\ UNCHANGED <<store, result, hist>>
           ELSE /\ pc' = [pc EXCEPT ![a] = "done"]
                /\ store' = upd.store
                /\ obj' = [obj EXCEPT ![a] = upd.obj]
                /\ result' = [result EXCEPT ![a] = Returned(upd.err, post.err)]
                /\ hist' = [hist EXCEPT
                              ![a].lockedSeen = post.lockedSeen,
                              ![a].clock = @ + 2,
                              ![a].persists = @ + 1,
                              ![a].sent2 = <<post.conds>>,
                              ![a].second = IF upd.err = NoErr THEN "ok" ELSE upd.err]
  /\ UNCHANGED setVars

Next ==
  \E a \in Attempts :
    \/ NewLock(a)
    \/ ExecuteBegin(a)
    \/ \E prog \in TaskPrograms, e \in {NoErr} \cup TaskErrs :
         TaskReturn(a, prog, e)
    \/ \E prog \in TaskPrograms : TaskReturnUpdate(a, prog)
    \/ ExecuteFinish(a)

Spec == Init /\ [][Next]_vars

\* ------------------------------------------------------------ claims

\* The live condition of the lock's type in attempt a's resource.
Live(a) == FindType(obj[a].conds, LockType)

\* Attempt a's Execute has invoked its task.
TaskInvoked(a) == hist[a].tasks > 0

\* Both of Execute's Updates succeeded in attempt a, and Execute returned.
BothPersisted(a) ==
  pc[a] = "done" /\ hist[a].first = "ok" /\ hist[a].second = "ok"

\* C1: among attempts that fetched the same stored version of the resource,
\* at most one ever has its task invoked, and every other one that has
\* returned from Execute returned the store's conflict error.
C1_SingleWinner ==
  \A a \in Attempts : \A b \in Attempts \ {a} :
    (pc[a] # "start" /\ pc[b] # "start"
       /\ hist[a].fetched = hist[b].fetched)
    => /\ ~(TaskInvoked(a) /\ TaskInvoked(b))
       /\ (TaskInvoked(a) /\ pc[b] = "done") => result[b] = ConflictErr

C1_Witness ==
  \E a \in Attempts : \E b \in Attempts \ {a} :
    /\ hist[a].fetched = hist[b].fetched
    /\ TaskInvoked(a)
    /\ pc[b] = "done" /\ result[b] = ConflictErr /\ ~TaskInvoked(b)

\* C2 as stated: in every interleaving, no two attempts are inside their task
\* at the same time.
C2_NeverTwoInTask ==
  \A a \in Attempts : \A b \in Attempts \ {a} :
    ~(pc[a] = "task" /\ pc[b] = "task")

\* C2 amended: two attempts are inside their task at the same time only when
\* they fetched different stored versions of the resource; attempts that
\* fetched the same version are never both inside their task.
C2_NeverTwoInTaskSameVersion ==
  \A a \in Attempts : \A b \in Attempts \ {a} :
    (pc[a] = "task" /\ pc[b] = "task") => hist[a].fetched # hist[b].fetched

\* An attempt is inside its task while another, which fetched the same
\* version, has been turned away.
C2_Witness ==
  \E a \in Attempts : \E b \in Attempts \ {a} :
    /\ pc[a] = "task"
    /\ hist[a].fetched = hist[b].fetched
    /\ pc[b] = "done" /\ hist[b].first = ConflictErr

\* C3: if the first Update of Execute fails, Execute returns exactly that
\* error, the task is never invoked and no second Update is made.
C3_FirstFailureAborts ==
  \A a \in Attempts :
    (hist[a].first # "none" /\ hist[a].first # "ok")
    => /\ pc[a] = "done"
       /\ result[a] = hist[a].first
       /\ ~TaskInvoked(a)
       /\ hist[a].arg = <<>>
       /\ hist[a].persists = 1
       /\ hist[a].second = "none"

C3_Witness ==
  \E a \in Attempts :
    hist[a].first = ConflictErr /\ pc[a] = "done" /\ result[a] = ConflictErr

\* C4: when both Updates succeed and the task returns an error e without
\* setting the condition itself, Execute returns e and the live condition of
\* the lock's type has Status Error and Reason e.
C4_TaskErrorRecorded ==
  \A a \in Attempts :
    (BothPersisted(a) /\ hist[a].taskErr \in TaskErrs /\ ~hist[a].taskSet)
    => /\ result[a] = hist[a].taskErr
       /\ ~IsNilCondition(Live(a))
       /\ Deref(Live(a)).Status = ConditionError
       /\ Deref(Live(a)).Reason = hist[a].taskErr

\* C5: when both Updates succeed and the task returns nil without ever
\* calling SetCondition, Execute returns LockNotReleasedErr and the live
\* condition has Status Error with the lock-not-released reason.
C5_UnreleasedLockRecorded ==
  \A a \in Attempts :
    (BothPersisted(a) /\ hist[a].taskErr = NoErr /\ ~hist[a].taskSet)
    => /\ result[a] = LockNotReleasedErr
       /\ ~IsNilCondition(Live(a))
       /\ Deref(Live(a)).Status = ConditionError
       /\ Deref(Live(a)).Reason = LockNotReleasedErr

\* C6: the value Execute returns is the failure of highest precedence among
\* those that occurred, in the order first Update > second Update >
\* condition still Locked after the task > task error, and nil when none did.
C6_ErrorPrecedence ==
  \A a \in Attempts :
    pc[a] = "done"
    => result[a] =
         IF hist[a].first # "ok" THEN hist[a].first
         ELSE IF hist[a].second # "ok" THEN hist[a].second
         ELSE IF hist[a].lockedSeen THEN LockNotReleasedErr
         ELSE hist[a].taskErr

\* The task failed, the condition was still Locked and the second Update
\* failed: three failures at once.
C6_Witness ==
  \E a \in Attempts :
    /\ pc[a] = "done"
    /\ hist[a].taskErr \in TaskErrs
    /\ hist[a].lockedSeen
    /\ hist[a].second = ConflictErr
    /\ result[a] = ConflictErr

\* C7: the condition handed to the task is the value FindOrInitializeFor
\* returned when the lock was built ({Type, Initialized} when the type was
\* absent), whatever the live set holds when the task is called.
C7_TaskSeesSnapshot ==
  \A a \in Attempts :
    TaskInvoked(a)
    => /\ hist[a].arg = <<hist[a].snapshot>>
       /\ hist[a].arg[1] = FindOrInitializeFor(hist[a].preLive, LockType)
       /\ IsNilCondition(FindType(hist[a].preLive, LockType))
            => hist[a].arg[1] = Condition(LockType, ConditionInitialized, "", 0)

\* The task was handed {Initialized} while the live set holds Locked.
C7_Witness ==
  \E a \in Attempts :
    /\ pc[a] = "task"
    /\ hist[a].arg[1].Status = ConditionInitialized
    /\ ~IsNilCondition(Live(a))
    /\ Deref(Live(a)).Status = ConditionLocked

\* The entry of the type of the latest call's argument, before and after it.
LastBefore == FindType(last.pre.val, last.arg.Type)
LastAfter == FindType(conditions.val, last.arg.Type)

\* C8: after SetCondition(c) on an initialized set, FindType(c.Type) is found
\* and has c's Status and Reason.
C8_RoundTrip ==
  (last.op = "SetCondition" /\ ~last.pre.isNil)
  => /\ ~IsNilCondition(LastAfter)
     /\ Deref(LastAfter).Status = last.arg.Status
     /\ Deref(LastAfter).Reason = last.arg.Reason

\* C9: SetCondition for an existing type with a different Status and no
\* timestamp returns true, moves the stored LastTransitionTime to the time of
\* the call and leaves the size of the set unchanged.
C9_StatusChangeAdvancesTime ==
  (/\ last.op = "SetCondition"
   /\ ~IsNilCondition(LastBefore)
   /\ Deref(LastBefore).Status # last.arg.Status
   /\ IsZero(last.arg.LastTransitionTime))
  => /\ last.ret
     /\ Deref(LastAfter).LastTransitionTime = last.clock
     /\ Len(conditions.val) = Len(last.pre.val)

\* C10: two consecutive calls SetCondition(c) with the same c, made on an
\* initialized set whose entry for c.Type is absent or differs from c in
\* Status or Reason, return true then false, and the stored
\* LastTransitionTime is the same after both.
C10_Idempotent ==
  LET before == FindType(prev.pre.val, prev.arg.Type)
      between == FindType(last.pre.val, last.arg.Type)
  IN (/\ prev.op = "SetCondition" /\ last.op = "SetCondition"
      /\ prev.arg = last.arg
      /\ ~prev.pre.isNil
      /\ \/ IsNilCondition(before)
         \/ Deref(before).Status # prev.arg.Status
         \/ Deref(before).Reason # prev.arg.Reason)
     => /\ prev.ret
        /\ ~last.ret
        /\ ~IsNilCondition(between) /\ ~IsNilCondition(LastAfter)
        /\ Deref(LastAfter).LastTransitionTime
             = Deref(between).LastTransitionTime

\* The set before the latest call, and the type and status it was called with.
PreVal == last.pre.val
ArgType == last.arg.Type
ArgStatus == last.arg.Status
HadType == \E i \in 1..Len(PreVal) : PreVal[i].Type = ArgType

\* C11 (SpecSet).  Starting from an empty (or nil) set, after any sequence of
\* SetCondition and RemoveConditionWith calls no two entries of the set have
\* the same Type.
C11_OneEntryPerType ==
  \A i, j \in 1..Len(conditions.val) :
    i # j => conditions.val[i].Type # conditions.val[j].Type

\* SetCondition was just called for a type the set already held, in a set
\* of two entries.
C11_Witness ==
  /\ last.op = "SetCondition"
  /\ HadType
  /\ Len(conditions.val) = 2

\* C12 (SpecCall).  SetCondition for a type absent from an initialized set
\* returns true and leaves the set one entry longer; the entry added carries
\* the Type, Status and Reason passed and a non-zero LastTransitionTime: the
\* one passed when it is not zero, the time of the call otherwise.
C12_AbsentTypeAppended ==
  (last.op = "SetCondition" /\ ~last.pre.isNil /\ ~HadType) =>
    /\ last.ret
    /\ Len(conditions.val) = Len(PreVal) + 1
    /\ \E i \in 1..Len(conditions.val) :
         LET e == conditions.val[i]
         IN /\ e.Type = ArgType
            /\ e.Status = ArgStatus
            /\ e.Reason = last.arg.Reason
            /\ e.LastTransitionTime # 0
            /\ e.LastTransitionTime =
                 IF last.arg.LastTransitionTime # 0
                 THEN last.arg.LastTransitionTime
                 ELSE last.clock

\* SetCondition was called without a timestamp for a type absent from a set
\* of two entries.
C12_Witness ==
  /\ last.op = "SetCondition"
  /\ ~last.pre.isNil
  /\ ~HadType
  /\ Len(PreVal) = 2
  /\ last.arg.LastTransitionTime = 0

\* C13 (SpecCall).  SetCondition for a type the set holds, with the Status
\* the entry has and another Reason, returns true, leaves the entry with the
\* Reason passed and leaves its LastTransitionTime as it was.
C13_ReasonChangeKeepsTime ==
  \A i \in 1..Len(PreVal) :
    ( /\ last.op = "SetCondition"
      /\ PreVal[i].Type = ArgType
      /\ PreVal[i].Status = ArgStatus
      /\ PreVal[i].Reason # last.arg.Reason ) =>
        /\ last.ret
        /\ \E j \in 1..Len(conditions.val) :
             /\ conditions.val[j].Type = ArgType
             /\ conditions.val[j].Reason = last.arg.Reason
             /\ conditions.val[j].LastTransitionTime =
                  PreVal[i].LastTransitionTime

\* C14 (SpecCall).  SetCondition on a nil set returns false and leaves the
\* set nil, with no entry added.
C14_NilSetUntouched ==
  (last.op = "SetCondition" /\ last.pre.isNil) =>
    /\ ~last.ret
    /\ conditions.isNil
    /\ Len(conditions.val) = 0

\* SetCondition was called on a nil set.
C14_Witness ==
  /\ last.op = "SetCondition"
  /\ last.pre.isNil
  /\ last.arg.Status = ConditionCreated

\* C15 (SpecCall).  RemoveConditionWith(T) on a set of N entries that holds
\* an entry for T returns true and leaves N-1 entries: none for T, every
\* other one as it was and in the order they were in.
C15_RemoveDropsOnlyThatType ==
  \A k \in 1..Len(PreVal) :
    (last.op = "RemoveConditionWith" /\ PreVal[k].Type = ArgType) =>
      /\ last.ret
      /\ Len(conditions.val) = Len(PreVal) - 1
      /\ \A i \in 1..Len(conditions.val) : conditions.val[i].Type # ArgType
      /\ \A i \in 1..(k - 1) : conditions.val[i] = PreVal[i]
      /\ \A i \in (k + 1)..Len(PreVal) : conditions.val[i - 1] = PreVal[i]

\* The first of three entries was removed, two remain.
C15_Witness ==
  /\ last.op = "RemoveConditionWith"
  /\ Len(PreVal) = 3
  /\ PreVal[1].Type = ArgType
  /\ Len(conditions.val) = 2

\* C16 (SpecCall).  RemoveConditionWith(T) on a set that is nil, empty or
\* holds no entry for T returns false and leaves the set as it was, entries
\* and order.
C16_RemoveAbsentChangesNothing ==
  (last.op = "RemoveConditionWith" /\ ~HadType) =>
    /\ ~last.ret
    /\ conditions.isNil = last.pre.isNil
    /\ conditions.val = PreVal

\* RemoveConditionWith was called for a type that a set of two entries does
\* not hold.
C16_Witness ==
  /\ last.op = "RemoveConditionWith"
  /\ ~HadType
  /\ Len(PreVal) = 2

\* C17 (SpecCall).  FindType(T) returns a pointer to a condition equal to
\* the entry for T, nil when there is none, and leaves the set as it was;
\* writing a Status and a Reason through the pointer it returned leaves the
\* set as it was too.
C17_FindTypeReturnsCopy ==
  /\ last.op = "FindType" =>
       /\ conditions = last.pre
       /\ IF HadType
          THEN /\ ~IsNilCondition(last.out)
               /\ \E i \in 1..Len(PreVal) :
                    PreVal[i].Type = ArgType /\ Deref(last.out) = PreVal[i]
          ELSE IsNilCondition(last.out)
  /\ (last.op = "write" /\ prev.op = "FindType") => conditions = last.pre

\* The caller changed the condition FindType returned.
C17_Witness ==
  /\ last.op = "write"
  /\ prev.op = "FindType"
  /\ Deref(last.out).Status # Deref(prev.out).Status
  /\ Deref(last.out).Reason # Deref(prev.out).Reason

\* C18 (SpecCall).  FindOrInitializeFor(T) returns the entry for T when the
\* set holds one, and otherwise a condition of Type T and Status Initialized
\* with an empty Reason and a zero timestamp; the set is as it was.
C18_FindOrInitializeFor ==
  last.op = "FindOrInitializeFor" =>
    /\ conditions = last.pre
    /\ IF HadType
       THEN \E i \in 1..Len(PreVal) :
              PreVal[i].Type = ArgType /\ Deref(last.out) = PreVal[i]
       ELSE /\ Deref(last.out).Type = ArgType
            /\ Deref(last.out).Status = ConditionInitialized
            /\ Deref(last.out).Reason = ""
            /\ IsZero(Deref(last.out).LastTransitionTime)

\* FindOrInitializeFor was called for a type whose entry is Created.
C18_Witness ==
  /\ last.op = "FindOrInitializeFor"
  /\ \E i \in 1..Len(PreVal) :
       PreVal[i].Type = ArgType /\ PreVal[i].Status = ConditionCreated

\* C19 (SpecCall).  FindStatus(S) returns a condition equal to the earliest
\* entry, in insertion order, whose Status is S, and nil when no entry has
\* that Status.
C19_FindStatusEarliest ==
  last.op = "FindStatus" =>
    IF \E i \in 1..Len(PreVal) : PreVal[i].Status = ArgStatus
    THEN /\ ~IsNilCondition(last.out)
         /\ \E i \in 1..Len(PreVal) :
              /\ PreVal[i].Status = ArgStatus
              /\ \A j \in 1..(i - 1) : PreVal[j].Status # ArgStatus
              /\ Deref(last.out) = PreVal[i]
    ELSE IsNilCondition(last.out)

\* FindStatus was called for a status that the second and the third entry
\* have and the first has not.
C19_Witness ==
  /\ last.op = "FindStatus"
  /\ Len(PreVal) = 3
  /\ PreVal[1].Status # ArgStatus
  /\ PreVal[2].Status = ArgStatus
  /\ PreVal[3].Status = ArgStatus

\* C20 (SpecCall).  TypeHasStatus(T, S) is true exactly when FindType(T)
\* finds an entry and its Status is S; AnyWithStatus(S) is true exactly when
\* FindStatus(S) finds an entry.
C20_BooleanFinders ==
  /\ last.op = "TypeHasStatus" =>
       LET found == FindType(PreVal, ArgType)
       IN last.ret = (~IsNilCondition(found) /\ Deref(found).Status = ArgStatus)
  /\ last.op = "AnyWithStatus" =>
       last.ret = ~IsNilCondition(FindStatus(PreVal, ArgStatus))

\* TypeHasStatus was called with a status that the entry for the type has
\* not and another entry has.
C20_Witness ==
  /\ last.op = "TypeHasStatus"
  /\ \E i, j \in 1..Len(PreVal) :
       /\ PreVal[i].Type = ArgType
       /\ PreVal[i].Status # ArgStatus
       /\ PreVal[j].Status = ArgStatus
  /\ ~last.ret

\* The conditions held by the copy DeepCopy returned, as they read now and
\* as they read when the copy was made.
CopyNow == [i \in 1..Len(last.copy) |-> ValueAt(conditions.val, last.copy[i])]
CopyThen == [i \in 1..Len(prev.copy) |-> ValueAt(prev.pre.val, prev.copy[i])]

\* C21 (SpecCall).  A DeepCopy of a set or of a Condition starts equal to
\* its source; appending to the copy or writing Status and Reason of one of
\* its conditions leaves the source's length and fields as they were, and
\* writing Status and Reason of a condition of the source leaves the copy
\* as it was.
C21_DeepCopyIndependent ==
  /\ last.op = "Conditions.DeepCopy" =>
       conditions = last.pre /\ CopyNow = PreVal
  /\ last.op = "Condition.DeepCopy" =>
       conditions = last.pre /\ CopyNow = <<last.arg>>
  /\ last.op \in {"write copy", "append copy"} => conditions = last.pre
  /\ last.op = "write original" => CopyNow = CopyThen

\* The caller changed a condition of a copied set of three entries.
C21_Witness ==
  /\ last.op = "write copy"
  /\ prev.op = "Conditions.DeepCopy"
  /\ Len(PreVal) = 3
  /\ CopyNow # CopyThen

\* C22 (Spec).  Lock.Condition() returns l.condition: from the creation of
\* the lock on, at every point and after Execute returned with any outcome,
\* it is the condition NewLock found.
C22_LockConditionStable ==
  \A a \in Attempts : pc[a] # "start" => lock[a] = hist[a].snapshot

\* The condition of the lock's type in the resource that attempt a's Execute
\* handed to its first and to its second Update, and in the live set when
\* Execute was called.
Sent1(a) == FindType(hist[a].sent1[1], LockType)
Sent2(a) == FindType(hist[a].sent2[1], LockType)
PreLive(a) == FindType(hist[a].preLive, LockType)

\* Attempt a's first Update failed.
FirstFailed(a) == hist[a].first \notin {"none", "ok"}

\* C23 (Spec).  In every Execute, the resource handed to the first Update
\* has the condition of the lock's type with Status Locked and Reason
\* "Resource locked", whatever the live set held for that type before.
C23_FirstUpdateCarriesLocked ==
  \A a \in Attempts :
    hist[a].persists >= 1 =>
      /\ ~IsNilCondition(Sent1(a))
      /\ Deref(Sent1(a)).Status = ConditionLocked
      /\ Deref(Sent1(a)).Reason = "Resource locked"

\* C24 (Spec).  In every Execute that reaches its second Update, the
\* resource handed to it has the condition of the lock's type, and not with
\* Status Locked: with Error after a task failure, and with Error and the
\* lock-not-released reason when the task left it Locked.
C24_SecondUpdateNeverLocked ==
  \A a \in Attempts :
    hist[a].persists = 2 =>
      /\ ~IsNilCondition(Sent2(a))
      /\ Deref(Sent2(a)).Status # ConditionLocked
      /\ hist[a].taskErr # NoErr => Deref(Sent2(a)).Status = ConditionError
      /\ hist[a].lockedSeen =>
           /\ Deref(Sent2(a)).Status = ConditionError
           /\ Deref(Sent2(a)).Reason = LockNotReleasedErr

\* C25 (Spec).  When Execute has returned nil, the live set has a condition
\* of the lock's type and its Status is not Locked.
C25_SuccessLeavesNoLock ==
  \A a \in Attempts :
    (pc[a] = "done" /\ result[a] = NoErr) =>
      ~IsNilCondition(Live(a)) /\ Deref(Live(a)).Status # ConditionLocked

\* An Execute returned nil on a resource that had no condition of the
\* lock's type when it was called.
C25_Witness ==
  \E a \in Attempts :
    /\ pc[a] = "done"
    /\ result[a] = NoErr
    /\ hist[a].persists = 2
    /\ IsNilCondition(PreLive(a))

\* C26 (Spec).  In one Execute the store is asked to persist at most twice
\* and the task is invoked at most once; the task is invoked only after the
\* first Update succeeded, the second Update is made only after the task
\* returned, and an Update that failed ends Execute without another try.
C26_EventOrder ==
  \A a \in Attempts :
    /\ hist[a].persists <= 2
    /\ hist[a].tasks <= 1
    /\ hist[a].tasks = 1 => hist[a].first = "ok" /\ hist[a].persists >= 1
    /\ hist[a].persists = 2 => hist[a].tasks = 1 /\ hist[a].taskErr # "none"
    /\ hist[a].taskErr # "none" => hist[a].tasks = 1
    /\ FirstFailed(a) =>
         pc[a] = "done" /\ hist[a].persists = 1 /\ hist[a].tasks = 0
    /\ hist[a].second \notin {"none", "ok"} =>
         pc[a] = "done" /\ hist[a].persists = 2
    /\ pc[a] \in {"task", "returned", "panic"} => hist[a].persists = 1

\* An Execute invoked its task and ended at its failed second Update.
C26_Witness ==
  \E a \in Attempts :
    /\ pc[a] = "done"
    /\ hist[a].tasks = 1
    /\ hist[a].second = ConflictErr

\* C27 as stated (Spec).  When the first Update of Execute fails, the live
\* set's condition of the lock's type is after Execute what it was before
\* (absent if it was absent), and the store was not changed by the call.
C27_FirstFailureRestoresLive ==
  \A a \in Attempts :
    FirstFailed(a) => Live(a) = PreLive(a) /\ ~hist[a].firstWrote

\* C27 amended (Spec).  When the first Update of Execute fails, the store
\* was not changed by the call, the task is not invoked and the conditions
\* of other types are in the live set as they were; the condition Execute
\* set before the Update stays in the live set: a type that was absent is
\* there with Status Locked and Reason "Resource locked".
C27_FirstFailureKeepsStore ==
  \A a \in Attempts :
    FirstFailed(a) =>
      /\ ~hist[a].firstWrote
      /\ hist[a].tasks = 0
      /\ FilterOut(obj[a].conds, LockType) = FilterOut(hist[a].preLive, LockType)
      /\ IsNilCondition(PreLive(a)) =>
           /\ ~IsNilCondition(Live(a))
           /\ Deref(Live(a)).Status = ConditionLocked
           /\ Deref(Live(a)).Reason = "Resource locked"
           /\ ~IsZero(Deref(Live(a)).LastTransitionTime)

\* The first Update of an Execute failed on a resource that had no condition
\* of the lock's type.
C27_Witness ==
  \E a \in Attempts :
    /\ FirstFailed(a)
    /\ pc[a] = "done"
    /\ IsNilCondition(PreLive(a))

TypesOf(c) == [i \in 1..Len(c) |-> c[i].Type]

\* C29 (SpecCall).  SetCondition for a new type puts its entry after the
\* entries the set had, which keep their places; SetCondition for a type the
\* set holds leaves every entry at its place; RemoveConditionWith leaves the
\* remaining entries in the order they were in.
C29_InsertionOrderKept ==
  /\ (last.op = "SetCondition" /\ ~last.pre.isNil /\ ~HadType) =>
       TypesOf(conditions.val) = TypesOf(PreVal) \o <<ArgType>>
  /\ (last.op = "SetCondition" /\ HadType) =>
       TypesOf(conditions.val) = TypesOf(PreVal)
  /\ last.op = "RemoveConditionWith" =>
       \A i, j \in 1..Len(conditions.val) :
         i < j => \E m, n \in 1..Len(PreVal) :
                    /\ m < n
                    /\ PreVal[m].Type = conditions.val[i].Type
                    /\ PreVal[n].Type = conditions.val[j].Type

\* SetCondition was called with a timestamp for a type that a set of two
\* entries did not hold.
C29_Witness ==
  /\ last.op = "SetCondition"
  /\ ~HadType
  /\ Len(PreVal) = 2
  /\ last.arg.LastTransitionTime # 0

\* Attempt a's Execute was called.
ExecuteCalled(a) == pc[a] \in {"task", "returned", "done", "panic"}

\* C30 (Spec).  From the call of Execute on, whatever its outcome, and with
\* a task that changes the condition of the lock's type only, the conditions
\* of other types are in the live set what they were when Execute was
\* called: same fields, same order.
C30_OtherTypesUntouched ==
  \A a \in Attempts :
    (ExecuteCalled(a) /\ hist[a].persists >= 1) =>
      FilterOut(obj[a].conds, LockType) = FilterOut(hist[a].preLive, LockType)

\* An Execute returned on a resource holding a condition of another type,
\* and the condition of the lock's type is not what it was.
C30_Witness ==
  \E a \in Attempts :
    /\ pc[a] = "done"
    /\ hist[a].persists = 2
    /\ Len(FilterOut(hist[a].preLive, LockType)) > 0
    /\ Live(a) # PreLive(a)

\* C31 (Spec).  Execute ends by returning, whatever the task does: when the
\* task removed the condition of the lock's type from the live set, reading
\* that condition again after the task does not fault.
C31_ExecuteNeverFaults ==
  \A a \in Attempts : pc[a] # "panic"

====
